---- MODULE Spec2Model ----
(***************************************************************************)
(* Model of blenko-sku-generator.user.js: the SKU deriver (generateSKU,    *)
(* formatSKU), the history log (saveToHistory) and the save-interception   *)
(* layer (handleSaveClick, showInitialPromptIfNeeded, initialize,          *)
(* watchAndInitialize).                                                    *)
(*                                                                         *)
(* JavaScript strings are modelled as sequences of one-character strings,  *)
(* so that trimming, joining, replacing and slicing are computed and not   *)
(* assumed.  crypto.subtle.digest is modelled as an oracle: an unknown but *)
(* fixed function from byte strings to 32-byte digests, whose values are   *)
(* chosen nondeterministically the first time a byte string is hashed.     *)
(***************************************************************************)
EXTENDS Integers, Sequences, FiniteSets, TLC

VARIABLES
    inv,        \* generateSKU invocations: caller -> locals and position
    sha,        \* the digest oracle: set of <<data, digest>> pairs decided so far
    dom,        \* the page: URL kind, title field, SKU checkbox, SKU field
    hooks,      \* form._blenkoIntercepted, document._blenkoListenersSetup, and
                \* how often submit was wrapped and the listeners were added
    isProcessingSave,
    hasShownInitialPrompt,
    history,    \* the parsed value stored under 'skuHistory'
    now,        \* the clock new Date() reads, in ticks of 500 ms
    tasks,      \* pending timers and suspended async functions
    scanDue,    \* the 500 ms interval of watchAndInitialize is due
    used,       \* user actions (save intents, URL changes), or direct
                \* saveToHistory calls, so far
    last,       \* what became of the last save intent
    dialog,     \* the last confirm() shown and its answer
    shown,      \* initial prompts shown since the last URL change
    log         \* every entry ever passed to saveToHistory, newest first

genVars == <<inv, sha>>
pageVars == <<dom, hooks, isProcessingSave, hasShownInitialPrompt, tasks, scanDue,
              last, dialog, shown>>
histVars == <<history, now, used, log>>
vars == <<inv, sha, dom, hooks, isProcessingSave, hasShownInitialPrompt, history,
          now, tasks, scanDue, used, last, dialog, shown, log>>

----------------------------------------------------------------------------
(* Configuration (lines 63-65)                                             *)

CHARSET ==
    << "A","B","C","D","E","F","G","H","I","J","K","L","M",
       "N","O","P","Q","R","S","T","U","V","W","X","Y","Z",
       "0","1","2","3","4","5","6","7","8","9" >>

\* The length of the alphabet taken for that of its letters.
CHARSET_LENGTH_letters == Len(CHARSET) - 10
CHARSET_LENGTH == Len(CHARSET)

SKU_LENGTH == 12

\* A Uint8Array element is 0..ByteMax; a SHA-256 digest has DigestLen bytes.
ByteMax == 255
DigestLen == 32
Bytes == 0..ByteMax

----------------------------------------------------------------------------
(* generateSKU, the part after the digest (lines 84-98), and formatSKU     *)

\* CHARSET[k] with JavaScript's 0-based index.
CharAt(k) == CHARSET[k + 1]

\* The loop of lines 88-94 without the stop at SKU_LENGTH characters.
RECURSIVE MapLoop_noStop(_, _, _)
MapLoop_noStop(hashArray, i, result) ==
    IF i < Len(hashArray)
    THEN LET byte == hashArray[i + 1]
         IN MapLoop_noStop(hashArray, i + 1,
               result \o << CharAt((byte \div CHARSET_LENGTH) % CHARSET_LENGTH),
                            CharAt(byte % CHARSET_LENGTH) >>)
    ELSE [result |-> result, i |-> i]

\* The loop of lines 88-94 with the two characters of a byte exchanged.
RECURSIVE MapLoop_swapped(_, _, _)
MapLoop_swapped(hashArray, i, result) ==
    IF i < Len(hashArray) /\ Len(result) < SKU_LENGTH
    THEN LET byte == hashArray[i + 1]
             r1 == Append(result, CharAt(byte % CHARSET_LENGTH))
             r2 == IF Len(r1) < SKU_LENGTH
                   THEN Append(r1, CharAt((byte \div CHARSET_LENGTH) % CHARSET_LENGTH))
                   ELSE r1
         IN MapLoop_swapped(hashArray, i + 1, r2)
    ELSE [result |-> result, i |-> i]

\* The for loop of lines 88-94: i is the loop index, result the characters
\* emitted so far (resultIndex = Len(result)).  Its value is the characters
\* emitted and the index the loop ended at, i.e. the number of bytes read.
RECURSIVE MapLoop(_, _, _)
MapLoop(hashArray, i, result) ==
    IF i < Len(hashArray) /\ Len(result) < SKU_LENGTH
    THEN LET byte == hashArray[i + 1]
             r1 == Append(result, CharAt((byte \div CHARSET_LENGTH) % CHARSET_LENGTH))
             r2 == IF Len(r1) < SKU_LENGTH
                   THEN Append(r1, CharAt(byte % CHARSET_LENGTH))
                   ELSE r1
         IN MapLoop(hashArray, i + 1, r2)
    ELSE [result |-> result, i |-> i]

\* Lines 85-94: the loop from its initial state.
MapDigest(hashArray) == MapLoop(hashArray, 0, << >>)

\* .replace('O', '0'): only the first occurrence is replaced.
ReplaceO_first(s) ==
    [k \in 1..Len(s) |->
        IF s[k] = "O" /\ (\A j \in 1..(k - 1) : s[j] # "O") THEN "0" ELSE s[k]]

\* No replacement at all.
ReplaceO_none(s) == s

\* .replace(/O/g, '0') of line 97.
ReplaceO(s) == [k \in 1..Len(s) |-> IF s[k] = "O" THEN "0" ELSE s[k]]

\* String.prototype.substring(from, to) for 0 <= from <= to.
Substring(s, from, to) ==
    LET t == IF to > Len(s) THEN Len(s) ELSE to
        f == IF from > t THEN t ELSE from
    IN SubSeq(s, f + 1, t)

\* formatSKU without the length test of line 102.
formatSKU_anyLength(s) ==
    Substring(s, 0, 4) \o <<"-">> \o Substring(s, 4, 8)
                       \o <<"-">> \o Substring(s, 8, 12)

formatSKU(s) ==
    IF Len(s) # SKU_LENGTH THEN s
    ELSE Substring(s, 0, 4) \o <<"-">> \o Substring(s, 4, 8)
                            \o <<"-">> \o Substring(s, 8, 12)

----------------------------------------------------------------------------
(* JavaScript values and strings                                           *)

\* A JavaScript value: its kind t and, for a string, its characters v.
JSString(s) == [t |-> "string", v |-> s]
JSNull == [t |-> "null", v |-> << >>]
\* The non-string arguments tried: undefined, null, false, 0, 5, {}.
NonStrings == {[t |-> k, v |-> << >>] :
                  k \in {"undefined", "null", "false", "zero", "number", "object"}}
Falsy(x) == x.t \in {"undefined", "null", "false", "zero"}
               \/ (x.t = "string" /\ Len(x.v) = 0)

\* White space as String.prototype.trim sees it, among the characters used.
WhiteSpace == {" ", "\t"}
TitleChars == {" ", "\t", "a", "A"}

RECURSIVE TrimStart(_)
TrimStart(s) ==
    IF Len(s) > 0 /\ Head(s) \in WhiteSpace THEN TrimStart(Tail(s)) ELSE s

RECURSIVE TrimEnd(_)
TrimEnd(s) ==
    IF Len(s) > 0 /\ s[Len(s)] \in WhiteSpace
    THEN TrimEnd(SubSeq(s, 1, Len(s) - 1)) ELSE s

\* String.prototype.trim (lines 73, 259, 265, 269, 295).
Trim(s) == TrimEnd(TrimStart(s))

\* The UTF-8 code of each character used.
Utf8(ch) ==
    CASE ch = " "  -> 32
      [] ch = "\t" -> 9
      [] ch = "a"  -> 97
      [] ch = "A"  -> 65

\* new TextEncoder().encode(s) (lines 79-80).
Encode(s) == [k \in 1..Len(s) |-> Utf8(s[k])]

----------------------------------------------------------------------------
(* Bounds of the model                                                     *)

MaxPad == 1

\* Two concurrent callers of generateSKU.
Callers == {1, 2}

RECURSIVE SeqsUpTo(_, _)
SeqsUpTo(S, n) ==
    IF n = 0 THEN {<< >>}
    ELSE LET shorter == SeqsUpTo(S, n - 1)
         IN shorter \cup {Append(s, x) : s \in {t \in shorter : Len(t) = n - 1}, x \in S}

\* The arguments a caller may pass to generateSKU: a core (empty, "a", "A")
\* between white space on each side (up to MaxPad spaces, or a tab), or a
\* value that is no string.
Cores == {<< >>, <<"a">>, <<"A">>}
Pads == {[k \in 1..n |-> " "] : n \in 0..MaxPad} \cup {<<"\t">>}
Titles == {JSString(l \o c \o r) : l \in Pads, c \in Cores, r \in Pads}
Arguments == Titles \cup NonStrings

----------------------------------------------------------------------------
(* The digests the oracle may answer with                                  *)

\* A digest with the given first six bytes and every later byte 0, except
\* byte q (1-based, q > 6), which is v.
Digest(head, q, v) ==
    [k \in 1..DigestLen |-> IF k <= Len(head) THEN head[k]
                            ELSE IF k = q THEN v ELSE 0]

HeadLen == SKU_LENGTH \div 2
BaseHead == [k \in 1..HeadLen |-> 0]
\* Bytes on both sides of every boundary of the mapping: 14 -> "AO",
\* 26 -> "A0", 50 -> "BO", 62 -> "B0", 15 -> "AP".
SampleBytes == {14, 26, 50, 62, 15}

\* BaseHead with byte p replaced by b.
Head1(p, b) == [BaseHead EXCEPT ![p] = b]
\* BaseHead with bytes p and q replaced by b and c.
Head2(p, b, q, c) == [BaseHead EXCEPT ![p] = b, ![q] = c]

\* The digest of the one title the pages have; its code has an O.
PageDigests == {Digest(Head2(1, 14, HeadLen, 255), DigestLen, 255)}

\* The digests used where the oracle is undecided.
SmallDigests == {Digest(Head2(1, b, HeadLen, 26), DigestLen, 255) : b \in {14, 200}}

\* Pairs of digests: (a) "tail": equal heads, tails that differ in one byte;
\* (b) "byte": heads that differ in one byte: every pair of byte values in
\* the first and the last byte read, every value against SampleBytes between;
\* (c) "two": heads that differ in up to two bytes, from SampleBytes.
TailPair(p, b, q, v, w) ==
    <<Digest(Head1(p, b), q, v), Digest(Head1(p, b), q, w)>>
BytePair(p, b, c) ==
    <<Digest(Head1(p, b), 0, 0), Digest(Head1(p, c), 0, 0)>>
TwoBytePair(p, q, b1, c1, b2, c2) ==
    <<Digest(Head2(p, b1, q, c1), 0, 0), Digest(Head2(p, b2, q, c2), 0, 0)>>

----------------------------------------------------------------------------
(* The page, the timers and the suspended functions                        *)

MaxTasks == 4
MaxActions == 2
MaxNow == 1

Tasks == 1..MaxTasks
\* generateSKU is invoked by the two callers of SpecGen or by a task.
Invs == Callers \cup Tasks

\* kind: what isNewProductPage / isExistingProductPage (lines 22-48) say of
\* the URL; hasTitle, hasSku: findTitleInput / findSKUInput find an element;
\* cb: what findSKUCheckbox finds; gen: the number of URL changes so far,
\* which tells the elements of one page from those of the next.
Page(kind, hasTitle, title, cb, hasSku, sku, gen) ==
    [kind |-> kind, hasTitle |-> hasTitle, title |-> title, cb |-> cb,
     hasSku |-> hasSku, sku |-> sku, gen |-> gen]

NoPage(gen) == Page("other", FALSE, << >>, "absent", FALSE, << >>, gen)

\* The pages a URL can show: a new product page has no SKU field until its
\* SKU checkbox is checked; an existing product page has no such checkbox.
PagesAt(gen) ==
    {NoPage(gen),
     Page("new", TRUE, << >>, "unchecked", FALSE, << >>, gen),
     Page("new", TRUE, <<" ", "a">>, "absent", FALSE, << >>, gen),
     Page("new", TRUE, <<" ", "a">>, "unchecked", FALSE, << >>, gen),
     Page("existing", FALSE, << >>, "absent", TRUE, << >>, gen),
     Page("existing", TRUE, << >>, "absent", TRUE, << >>, gen),
     Page("existing", TRUE, <<" ", "a">>, "absent", FALSE, << >>, gen)}
    \cup {Page("new", TRUE, <<" ", "a">>, "checked", TRUE, v, gen) :
             v \in {<< >>, <<"Z">>}}
    \cup {Page("existing", TRUE, <<" ", "a">>, "absent", TRUE, v, gen) :
             v \in {<<" ">>, <<"Z">>}}

\* The pages a URL change leads to.
NavPagesAt(gen) ==
    {NoPage(gen),
     Page("existing", TRUE, <<" ", "a">>, "absent", TRUE, << >>, gen)}

\* st: "free"; a timer "init", "promptWait", "cbWait" or "reset" with d ticks
\* left; or a function suspended in generateAndSetSKU, "promptDigest" or
\* "saveDigest".  title, gen and answer are the locals productTitle, the page
\* the element skuInput belongs to, and shouldGenerate.
FreeTask == [st |-> "free", d |-> 0, title |-> << >>, gen |-> 0, answer |-> FALSE]
Timer(st, d) == [FreeTask EXCEPT !.st = st, !.d = d]
TimerStates == {"init", "promptWait", "cbWait", "reset"}

NoIntent == [kind |-> "none", missing |-> FALSE, titleOK |-> FALSE, hooked |-> FALSE,
             processing |-> FALSE, blocked |-> FALSE, prompted |-> FALSE]
NoDialog == [src |-> "none", answer |-> FALSE, seq |-> 0]

\* The state of everything but generateSKU's invocations before the script
\* has scheduled anything, on a page that is no product page.
QuietPage ==
    /\ dom = NoPage(0)
    /\ hooks = [formIntercepted |-> FALSE, submitLayers |-> 0,
                listenersSetup |-> FALSE, listenerSets |-> 0]
    /\ isProcessingSave = FALSE
    /\ hasShownInitialPrompt = FALSE
    /\ tasks = [t \in Tasks |-> FreeTask]
    /\ scanDue = FALSE
    /\ last = NoIntent
    /\ dialog = NoDialog
    /\ shown = 0

EmptyHistory ==
    /\ history = << >>
    /\ now = 0
    /\ used = 0
    /\ log = << >>

----------------------------------------------------------------------------
(* generateSKU (lines 68-99)                                               *)

NoCall == [pc |-> "idle", arg |-> JSNull, data |-> << >>, hashArray |-> << >>,
           i |-> 0, result |-> << >>, sku |-> << >>, ret |-> JSNull]

Decided(d) == \E e \in sha : e[1] = d
\* What digest(d) may resolve to: the decided digest, or any digest of fresh.
OracleChoices(d, fresh) ==
    IF Decided(d) THEN {e[2] : e \in {x \in sha : x[1] = d}} ELSE fresh

\* Lines 69-76 without the check of the trimmed length.
Rejected_noTrim(productTitle) ==
    \/ Falsy(productTitle)
    \/ productTitle.t # "string"

\* Lines 69-76: the input is rejected.
Rejected(productTitle) ==
    \/ Falsy(productTitle)
    \/ productTitle.t # "string"
    \/ Len(Trim(productTitle.v)) = 0

\* Lines 78-81 with the untrimmed title encoded.
DigestInput_raw(productTitle) == Encode(productTitle.v)

\* Lines 78-81: what is handed to crypto.subtle.digest.
DigestInput(productTitle) == Encode(Trim(productTitle.v))

\* generateSKU up to its await (lines 68-81): returns null, or suspends.
CallRecord(productTitle) ==
    IF Rejected(productTitle)
    THEN [NoCall EXCEPT !.pc = "done", !.arg = productTitle, !.ret = JSNull]
    ELSE [NoCall EXCEPT !.pc = "await", !.arg = productTitle,
                        !.data = DigestInput(productTitle)]

\* generateSKU from the await on, answering with the SKU of an invocation
\* that has returned before, if there is one: a result kept between calls.
ResumeRecord_shared(r, h) ==
    LET loop == MapDigest(h)
        sku == ReplaceO(loop.result)
        before == {c \in DOMAIN inv : inv[c].pc = "done" /\ Len(inv[c].sku) > 0}
        kept == IF before = {} THEN sku ELSE inv[CHOOSE c \in before : TRUE].sku
    IN [r EXCEPT !.pc = "done", !.hashArray = h, !.i = loop.i,
                 !.result = loop.result, !.sku = kept,
                 !.ret = JSString(formatSKU(kept))]

\* generateSKU from the await on (lines 81-98), the digest being h.
ResumeRecord(r, h) ==
    LET loop == MapDigest(h)
        sku == ReplaceO(loop.result)
    IN [r EXCEPT !.pc = "done", !.hashArray = h, !.i = loop.i,
                 !.result = loop.result, !.sku = sku,
                 !.ret = JSString(formatSKU(sku))]

Call(c) ==
    /\ inv[c].pc = "idle"
    /\ \E a \in Arguments : inv' = [inv EXCEPT ![c] = CallRecord(a)]
    /\ UNCHANGED <<sha, pageVars, histVars>>

Resume(c) ==
    /\ inv[c].pc = "await"
    /\ \E h \in OracleChoices(inv[c].data, SmallDigests) :
          /\ inv' = [inv EXCEPT ![c] = ResumeRecord(inv[c], h)]
          /\ sha' = sha \cup {<<inv[c].data, h>>}
    /\ UNCHANGED <<pageVars, histVars>>

\* The caller has taken the result; it may call again.
Return(c) ==
    /\ inv[c].pc = "done"
    /\ inv' = [inv EXCEPT ![c] = NoCall]
    /\ UNCHANGED <<sha, pageVars, histVars>>

----------------------------------------------------------------------------
(* SpecMap: the mapping of digest bytes to a SKU, for two invocations      *)
(* suspended at the await whose digests are one of the pairs of InitMap.    *)

MapTitle(c) == JSString(IF c = 1 THEN <<"a">> ELSE <<"A">>)

InitMapWith(dp) ==
    /\ inv = [c \in Invs |->
                 IF c \in Callers THEN CallRecord(MapTitle(c)) ELSE NoCall]
    /\ sha = {<<DigestInput(MapTitle(c)), dp[c]>> : c \in Callers}
    /\ QuietPage
    /\ EmptyHistory

InitMap ==
    \/ \E p \in {1, HeadLen}, b \in SampleBytes, q \in (HeadLen + 1)..DigestLen,
          v \in {0, 1}, w \in {0, 255} : InitMapWith(TailPair(p, b, q, v, w))
    \/ \E p \in {1, HeadLen}, b \in Bytes, c \in Bytes : InitMapWith(BytePair(p, b, c))
    \/ \E p \in 2..(HeadLen - 1), b \in Bytes, c \in SampleBytes :
          InitMapWith(BytePair(p, b, c))
    \/ \E pq \in {<<1, 2>>, <<3, HeadLen>>},
          b1 \in SampleBytes, c1 \in SampleBytes,
          b2 \in SampleBytes, c2 \in SampleBytes :
             InitMapWith(TwoBytePair(pq[1], pq[2], b1, c1, b2, c2))

NextMap == \E c \in Callers : Resume(c)

SpecMap == InitMap /\ [][NextMap]_vars

----------------------------------------------------------------------------
(* SpecGen: concurrent callers of generateSKU                              *)

InitGen ==
    /\ inv = [c \in Invs |-> NoCall]
    /\ sha = {}
    /\ QuietPage
    /\ EmptyHistory

\* The rest of the script, or another tab of the store, runs between the
\* steps of generateSKU: the flags and the stored history change.
ScriptRuns ==
    /\ isProcessingSave' \in BOOLEAN
    /\ hasShownInitialPrompt' \in BOOLEAN
    /\ history' \in {<< >>, <<[title |-> <<"a">>, sku |-> <<"Z">>, timestamp |-> now]>>}
    /\ UNCHANGED <<genVars, dom, hooks, tasks, scanDue, last, dialog, shown,
                   now, used, log>>

NextGen ==
    \/ \E c \in Callers : Call(c)
    \/ \E c \in Callers : Resume(c)
    \/ \E c \in Callers : Return(c)
    \/ ScriptRuns

SpecGen == InitGen /\ [][NextGen]_vars

----------------------------------------------------------------------------
(* SpecFmt: formatSKU called with strings of any length                    *)

MaxFmtLen == 13

FmtChars == {"A", "-"}

\* Caller 1 is about to call formatSKU(s), caller 2 formatSKU(s + 'A').
InitFmt ==
    /\ \E s \in SeqsUpTo(FmtChars, MaxFmtLen) :
          inv = [c \in Invs |->
                    IF c = 1 THEN [NoCall EXCEPT !.pc = "format", !.sku = s]
                    ELSE IF c = 2
                    THEN [NoCall EXCEPT !.pc = "format", !.sku = Append(s, "A")]
                    ELSE NoCall]
    /\ sha = {}
    /\ QuietPage
    /\ EmptyHistory

\* return formatSKU(sku)
Format(c) ==
    /\ inv[c].pc = "format"
    /\ inv' = [inv EXCEPT ![c] = [inv[c] EXCEPT !.pc = "done",
                                    !.ret = JSString(formatSKU(inv[c].sku))]]
    /\ UNCHANGED <<sha, pageVars, histVars>>

NextFmt == \E c \in Callers : Format(c)

SpecFmt == InitFmt /\ [][NextFmt]_vars

----------------------------------------------------------------------------
(* Page checks (lines 22-53, 203-243)                                      *)

isNewProductPage == dom.kind = "new"
isExistingProductPage == dom.kind = "existing"
isProductPage == isNewProductPage \/ isExistingProductPage

\* !value || value.trim() === ''
EmptyValue(v) == Len(v) = 0 \/ Len(Trim(v)) = 0

\* isSKUMissing taking a SKU field of an existing product for an empty one.
isSKUMissing_anyField ==
    IF isNewProductPage
    THEN \/ dom.cb = "unchecked"
         \/ dom.cb = "checked" /\ dom.hasSku /\ EmptyValue(dom.sku)
    ELSE IF isExistingProductPage
    THEN dom.hasSku
    ELSE FALSE

isSKUMissing ==
    IF isNewProductPage
    THEN \/ dom.cb = "unchecked"
         \/ dom.cb = "checked" /\ dom.hasSku /\ EmptyValue(dom.sku)
    ELSE IF isExistingProductPage
    THEN dom.hasSku /\ EmptyValue(dom.sku)
    ELSE FALSE

----------------------------------------------------------------------------
(* Timers, in ticks of 500 ms                                              *)

InitDelays == <<2, 4, 6>>
NavInitTicks == 2
PromptWaitTicks == 4
CbWaitTicks == 1
ResetTicks == 1
HistoryCap == 100

FreeSlots == {t \in Tasks : tasks[t].st = "free"}
\* The slot the next timer or suspended function takes.
Slot == CHOOSE t \in FreeSlots : \A u \in FreeSlots : t <= u
\* A timer is due; the interval, registered first (line 552), runs first.
Due(t) == tasks[t].st \in TimerStates /\ tasks[t].d = 0

\* Time passes: possible when every timer that is due has fired.  A digest
\* takes less than a tick.
Tick ==
    /\ ~scanDue
    /\ \A t \in Tasks : ~Due(t) /\ tasks[t].st \notin {"saveDigest", "promptDigest"}
    /\ tasks' = [t \in Tasks |->
                    IF tasks[t].st \in TimerStates
                    THEN [tasks[t] EXCEPT !.d = tasks[t].d - 1] ELSE tasks[t]]
    /\ scanDue' = TRUE
    /\ now' = IF now < MaxNow THEN now + 1 ELSE now
    /\ UNCHANGED <<genVars, dom, hooks, isProcessingSave, hasShownInitialPrompt,
                   history, used, last, dialog, shown, log>>

----------------------------------------------------------------------------
(* saveToHistory (lines 406-414)                                           *)

Entry(title, sku) == [title |-> title, sku |-> sku, timestamp |-> now]

\* slice(0, 100) of the array.
Slice(a, n) == SubSeq(a, 1, IF Len(a) < n THEN Len(a) ELSE n)

\* The entry appended at the end instead of put in front.
saveToHistory_push(title, sku) == Slice(Append(history, Entry(title, sku)), HistoryCap)

\* The value stored under 'skuHistory' by saveToHistory(title, sku).  The JSON
\* text is modelled by the array it encodes.
saveToHistory(title, sku) == Slice(<<Entry(title, sku)>> \o history, HistoryCap)

----------------------------------------------------------------------------
(* handleSaveClick (lines 274-380) and generateAndSetSKU (lines 383-403)   *)

\* needsSKU as lines 301-326 compute it.
needsSKU ==
    IF isNewProductPage
    THEN \/ dom.cb = "unchecked"
         \/ dom.cb = "checked" /\ dom.hasSku /\ EmptyValue(dom.sku)
    ELSE IF isExistingProductPage
    THEN dom.hasSku /\ EmptyValue(dom.sku)
    ELSE FALSE

\* handleSaveClick gets to line 329: none of the returns of lines 276-299 is
\* taken and needsSKU is true.
Engages ==
    /\ ~isProcessingSave
    /\ isProductPage
    /\ dom.hasTitle
    /\ Len(Trim(dom.title)) > 0
    /\ needsSKU

\* Lines 363-378 for the task in slot t: with a SKU field, generateAndSetSKU
\* is called and suspends in generateSKU; without, an alert, and in both
\* cases where nothing is awaited the reset timer is set.
AfterFind(t, productTitle, found, answer) ==
    LET call == CallRecord(JSString(productTitle))
    IN IF found /\ call.pc = "await"
       THEN /\ inv' = [inv EXCEPT ![t] = call]
            /\ tasks' = [tasks EXCEPT ![t] =
                            [st |-> "saveDigest", d |-> 0, title |-> productTitle,
                             gen |-> dom.gen, answer |-> answer]]
       ELSE /\ inv' = [inv EXCEPT ![t] = NoCall]
            /\ tasks' = [tasks EXCEPT ![t] = Timer("reset", ResetTicks)]

\* Lines 328-379 with the check box checked before the confirmation.
Processing_checkFirst(answer) ==
    /\ isProcessingSave' = TRUE
    /\ dialog' = [src |-> "save", answer |-> answer, seq |-> 1 - dialog.seq]
    /\ IF isNewProductPage /\ dom.cb = "unchecked"
       THEN /\ dom' = [dom EXCEPT !.cb = "checked"]
            /\ tasks' = [tasks EXCEPT ![Slot] =
                            IF answer
                            THEN [st |-> "cbWait", d |-> CbWaitTicks,
                                  title |-> Trim(dom.title), gen |-> dom.gen,
                                  answer |-> answer]
                            ELSE Timer("reset", ResetTicks)]
            /\ inv' = [inv EXCEPT ![Slot] = NoCall]
       ELSE IF answer
       THEN /\ AfterFind(Slot, Trim(dom.title), dom.hasSku, answer)
            /\ UNCHANGED dom
       ELSE /\ tasks' = [tasks EXCEPT ![Slot] = Timer("reset", ResetTicks)]
            /\ inv' = [inv EXCEPT ![Slot] = NoCall]
            /\ UNCHANGED dom

\* Lines 328-379 without the assignment of line 329.
Processing_noFlag(answer) ==
    /\ UNCHANGED isProcessingSave
    /\ dialog' = [src |-> "save", answer |-> answer, seq |-> 1 - dialog.seq]
    /\ IF ~answer
       THEN /\ tasks' = [tasks EXCEPT ![Slot] = Timer("reset", ResetTicks)]
            /\ inv' = [inv EXCEPT ![Slot] = NoCall]
            /\ UNCHANGED dom
       ELSE IF isNewProductPage /\ dom.cb = "unchecked"
       THEN /\ dom' = [dom EXCEPT !.cb = "checked"]
            /\ tasks' = [tasks EXCEPT ![Slot] =
                            [st |-> "cbWait", d |-> CbWaitTicks,
                             title |-> Trim(dom.title), gen |-> dom.gen,
                             answer |-> answer]]
            /\ inv' = [inv EXCEPT ![Slot] = NoCall]
       ELSE /\ AfterFind(Slot, Trim(dom.title), dom.hasSku, answer)
            /\ UNCHANGED dom

\* Lines 328-379 up to the first await: the flag, the confirmation and what
\* follows its answer.
Processing(answer) ==
    /\ isProcessingSave' = TRUE
    /\ dialog' = [src |-> "save", answer |-> answer, seq |-> 1 - dialog.seq]
    /\ IF ~answer
       THEN /\ tasks' = [tasks EXCEPT ![Slot] = Timer("reset", ResetTicks)]
            /\ inv' = [inv EXCEPT ![Slot] = NoCall]
            /\ UNCHANGED dom
       ELSE IF isNewProductPage /\ dom.cb = "unchecked"
       THEN /\ dom' = [dom EXCEPT !.cb = "checked"]
            /\ tasks' = [tasks EXCEPT ![Slot] =
                            [st |-> "cbWait", d |-> CbWaitTicks,
                             title |-> Trim(dom.title), gen |-> dom.gen,
                             answer |-> answer]]
            /\ inv' = [inv EXCEPT ![Slot] = NoCall]
       ELSE /\ AfterFind(Slot, Trim(dom.title), dom.hasSku, answer)
            /\ UNCHANGED dom

\* handleSaveClick(event) up to its first await, the user answering the
\* confirmation, if it is shown, with answer.
handleSaveClick(answer) ==
    IF Engages
    THEN Processing(answer)
    ELSE UNCHANGED <<isProcessingSave, dialog, tasks, inv, dom>>

\* Line 357 resolves: findSKUInput on the page as it is now, then lines 363-378.
CbWaitFire(t) ==
    /\ tasks[t].st = "cbWait" /\ Due(t) /\ ~scanDue
    /\ AfterFind(t, tasks[t].title, dom.hasSku, tasks[t].answer)
    /\ UNCHANGED <<sha, dom, hooks, isProcessingSave, hasShownInitialPrompt,
                   scanDue, last, dialog, shown, histVars>>

\* Lines 376-378: the reset timer fires.
ResetFire(t) ==
    /\ tasks[t].st = "reset" /\ Due(t) /\ ~scanDue
    /\ isProcessingSave' = FALSE
    /\ tasks' = [tasks EXCEPT ![t] = FreeTask]
    /\ UNCHANGED <<genVars, dom, hooks, hasShownInitialPrompt, scanDue, last,
                   dialog, shown, histVars>>

\* The digest of a task's generateSKU resolves: generateSKU returns r.ret, lines
\* 385-400 set the field (if skuInput is still an element of the page) and
\* save to the history; then handleSaveClick alerts and sets the reset timer
\* (lines 365, 376), showInitialPromptIfNeeded ends.
TaskResume(t) ==
    /\ tasks[t].st \in {"saveDigest", "promptDigest"}
    /\ inv[t].pc = "await"
    /\ ~scanDue
    /\ \E h \in OracleChoices(inv[t].data, PageDigests) :
       \E r \in {ResumeRecord(inv[t], h)} :
             /\ inv' = [inv EXCEPT ![t] = NoCall]
             /\ sha' = sha \cup {<<inv[t].data, h>>}
             /\ dom' = IF tasks[t].gen = dom.gen THEN [dom EXCEPT !.sku = r.ret.v]
                                                 ELSE dom
             /\ history' = saveToHistory(tasks[t].title, r.ret.v)
             /\ log' = <<Entry(tasks[t].title, r.ret.v)>> \o log
    /\ tasks' = [tasks EXCEPT ![t] =
                    IF tasks[t].st = "saveDigest" THEN Timer("reset", ResetTicks)
                                                  ELSE FreeTask]
    /\ UNCHANGED <<hooks, isProcessingSave, hasShownInitialPrompt, scanDue, last,
                   dialog, shown, now, used>>

\* The digest rejects and handleSaveClick does not catch: the rejection ends
\* the function before line 376.
TaskReject_uncaught(t) ==
    /\ tasks[t].st \in {"saveDigest", "promptDigest"}
    /\ inv[t].pc = "await"
    /\ ~scanDue
    /\ inv' = [inv EXCEPT ![t] = NoCall]
    /\ tasks' = [tasks EXCEPT ![t] = FreeTask]
    /\ UNCHANGED <<sha, dom, hooks, isProcessingSave, hasShownInitialPrompt,
                   scanDue, last, dialog, shown, histVars>>

\* The digest rejects: handleSaveClick catches, alerts and sets the reset
\* timer (lines 369-378); showInitialPromptIfNeeded ends with the rejection.
TaskReject(t) ==
    /\ tasks[t].st \in {"saveDigest", "promptDigest"}
    /\ inv[t].pc = "await"
    /\ ~scanDue
    /\ inv' = [inv EXCEPT ![t] = NoCall]
    /\ tasks' = [tasks EXCEPT ![t] =
                    IF tasks[t].st = "saveDigest" THEN Timer("reset", ResetTicks)
                                                  ELSE FreeTask]
    /\ UNCHANGED <<sha, dom, hooks, isProcessingSave, hasShownInitialPrompt,
                   scanDue, last, dialog, shown, histVars>>

----------------------------------------------------------------------------
(* showInitialPromptIfNeeded (lines 250-272)                               *)

\* The 2 s wait of line 254 is over: lines 256-271.
PromptFire(t) ==
    /\ tasks[t].st = "promptWait" /\ Due(t) /\ ~scanDue
    /\ IF dom.hasTitle /\ dom.hasSku /\ Len(Trim(dom.title)) > 0 /\ EmptyValue(dom.sku)
       THEN \E answer \in BOOLEAN :
               LET call == CallRecord(JSString(Trim(dom.title)))
               IN /\ hasShownInitialPrompt' = TRUE
                  /\ dialog' = [src |-> "initial", answer |-> answer,
                                seq |-> 1 - dialog.seq]
                  /\ shown' = shown + 1
                  /\ IF answer /\ call.pc = "await"
                     THEN /\ inv' = [inv EXCEPT ![t] = call]
                          /\ tasks' = [tasks EXCEPT ![t] =
                                          [st |-> "promptDigest", d |-> 0,
                                           title |-> Trim(dom.title),
                                           gen |-> dom.gen, answer |-> answer]]
                     ELSE /\ tasks' = [tasks EXCEPT ![t] = FreeTask]
                          /\ UNCHANGED inv
       ELSE /\ tasks' = [tasks EXCEPT ![t] = FreeTask]
            /\ UNCHANGED <<hasShownInitialPrompt, dialog, shown, inv>>
    /\ UNCHANGED <<sha, dom, hooks, isProcessingSave, scanDue, last, histVars>>

----------------------------------------------------------------------------
(* initialize (lines 443-547) and watchAndInitialize (lines 550-597)       *)

\* The wrapping of lines 463-491 without the test of _blenkoIntercepted.
WrapForms_noGuard(h) ==
    [h EXCEPT !.formIntercepted = TRUE, !.submitLayers = h.submitLayers + 1]

\* Lines 463-491 and 554-576: the form's submit is wrapped unless the form
\* is marked.
WrapForms(h) ==
    IF h.formIntercepted THEN h
    ELSE [h EXCEPT !.formIntercepted = TRUE, !.submitLayers = h.submitLayers + 1]

\* Lines 541-544: the listeners are added unless the document is marked.
SetupListeners(h) ==
    IF h.listenersSetup THEN h
    ELSE [h EXCEPT !.listenersSetup = TRUE, !.listenerSets = h.listenerSets + 1]

\* A timer of lines 581-583 or 593 fires: initialize().
InitializeFire(t) ==
    /\ tasks[t].st = "init" /\ Due(t) /\ ~scanDue
    /\ IF ~isProductPage
       THEN /\ tasks' = [tasks EXCEPT ![t] = FreeTask]
            /\ UNCHANGED hooks
       ELSE /\ tasks' = [tasks EXCEPT ![t] =
                            IF isExistingProductPage /\ ~hasShownInitialPrompt
                            THEN Timer("promptWait", PromptWaitTicks)
                            ELSE FreeTask]
            /\ hooks' = SetupListeners(WrapForms(hooks))
    /\ UNCHANGED <<genVars, dom, isProcessingSave, hasShownInitialPrompt, scanDue,
                   last, dialog, shown, histVars>>

\* The interval of lines 552-578 fires: the first callback of every tick.
IntervalScan ==
    /\ scanDue
    /\ scanDue' = FALSE
    /\ hooks' = IF isProductPage THEN WrapForms(hooks) ELSE hooks
    /\ UNCHANGED <<genVars, dom, isProcessingSave, hasShownInitialPrompt, tasks,
                   last, dialog, shown, histVars>>

\* The URL changes and the page of the new URL is rendered, with a new form;
\* the MutationObserver of lines 587-596 sees it.
Navigate ==
    /\ used < MaxActions
    /\ FreeSlots # {}
    /\ ~scanDue
    /\ used' = used + 1
    /\ \E pg \in NavPagesAt(dom.gen + 1) :
          /\ dom' = pg
          /\ tasks' = IF pg.kind \in {"new", "existing"}
                      THEN [tasks EXCEPT ![Slot] = Timer("init", NavInitTicks)]
                      ELSE tasks
    /\ hasShownInitialPrompt' = FALSE
    /\ shown' = 0
    /\ hooks' = [hooks EXCEPT !.formIntercepted = FALSE, !.submitLayers = 0]
    /\ UNCHANGED <<genVars, isProcessingSave, scanDue, last, dialog, history, now, log>>

\* The page renders the SKU field of a new product whose check box is checked.
RenderSKUField ==
    /\ dom.kind = "new" /\ dom.cb = "checked" /\ ~dom.hasSku
    /\ ~scanDue
    /\ dom' = [dom EXCEPT !.hasSku = TRUE]
    /\ UNCHANGED <<genVars, hooks, isProcessingSave, hasShownInitialPrompt, tasks,
                   scanDue, last, dialog, shown, histVars>>

----------------------------------------------------------------------------
(* Save intents (lines 472-490, 496-537, 560-574)                          *)

Intent(kind, hooked, blocked) ==
    [kind |-> kind, missing |-> isSKUMissing,
     titleOK |-> dom.hasTitle /\ Len(Trim(dom.title)) > 0,
     hooked |-> hooked, processing |-> isProcessingSave,
     blocked |-> blocked, prompted |-> blocked /\ Engages]

\* A click on the Save button, a submit event or Ctrl/Cmd+S reaches the
\* document: the listener of lines 496-515, 518-526 or 529-537 runs, if it
\* has been added.  The event is prevented when handleSaveClick gets to line
\* 332.
DomEvent(kind) ==
    /\ used < MaxActions
    /\ FreeSlots # {}
    /\ ~scanDue
    /\ used' = used + 1
    /\ IF hooks.listenerSets > 0 /\ isProductPage /\ ~isProcessingSave /\ isSKUMissing
       THEN /\ \E answer \in BOOLEAN : handleSaveClick(answer)
            /\ last' = Intent(kind, TRUE, Engages)
       ELSE /\ last' = Intent(kind, hooks.listenerSets > 0, FALSE)
            /\ UNCHANGED <<isProcessingSave, dialog, tasks, inv, dom>>
    /\ UNCHANGED <<sha, hooks, hasShownInitialPrompt, scanDue, shown, history, now, log>>

\* The three listeners differ in how they recognise the save intent, not in
\* what they do with it; last records all three as "event".
ClickSave == DomEvent("event")
SubmitEvent == DomEvent("event")
KeydownSave == DomEvent("event")

\* The page calls form.submit(): the wrapper of lines 472-490 (or 560-574)
\* runs if submit has been wrapped; the submit is blocked when the wrapper
\* returns without calling the original.
FormSubmit ==
    /\ used < MaxActions
    /\ FreeSlots # {}
    /\ ~scanDue
    /\ isProductPage
    /\ used' = used + 1
    /\ IF hooks.submitLayers > 0 /\ isSKUMissing /\ ~isProcessingSave
       THEN /\ \E answer \in BOOLEAN : handleSaveClick(answer)
            /\ last' = [Intent("formsubmit", TRUE, TRUE) EXCEPT !.prompted = Engages]
       ELSE /\ last' = Intent("formsubmit", hooks.submitLayers > 0, FALSE)
            /\ UNCHANGED <<isProcessingSave, dialog, tasks, inv, dom>>
    /\ UNCHANGED <<sha, hooks, hasShownInitialPrompt, scanDue, shown, history, now, log>>

----------------------------------------------------------------------------
(* Spec: the script on a page of the store                                 *)

Init ==
    /\ inv = [c \in Invs |-> NoCall]
    /\ sha = {}
    /\ dom \in PagesAt(0)
    /\ hooks = [formIntercepted |-> FALSE, submitLayers |-> 0,
                listenersSetup |-> FALSE, listenerSets |-> 0]
    /\ isProcessingSave = FALSE
    /\ hasShownInitialPrompt = FALSE
    /\ tasks = [t \in Tasks |->
                   IF t <= Len(InitDelays) THEN Timer("init", InitDelays[t])
                                           ELSE FreeTask]
    /\ scanDue = FALSE
    /\ last = NoIntent
    /\ dialog = NoDialog
    /\ shown = 0
    /\ EmptyHistory

Next ==
    \/ Tick
    \/ IntervalScan
    \/ Navigate
    \/ RenderSKUField
    \/ ClickSave
    \/ SubmitEvent
    \/ KeydownSave
    \/ FormSubmit
    \/ \E t \in Tasks : InitializeFire(t)
    \/ \E t \in Tasks : PromptFire(t)
    \/ \E t \in Tasks : CbWaitFire(t)
    \/ \E t \in Tasks : ResetFire(t)
    \/ \E t \in Tasks : TaskResume(t)
    \/ \E t \in Tasks : TaskReject(t)

Spec == Init /\ [][Next]_vars

\* A step of the event loop: time passes (which Tick allows only when no
\* callback is due and no digest is pending), the interval or a timer that
\* is due fires, or a digest settles.
Sched ==
    \/ Tick
    \/ IntervalScan
    \/ \E t \in Tasks : \/ InitializeFire(t)
                        \/ PromptFire(t)
                        \/ CbWaitFire(t)
                        \/ ResetFire(t)
                        \/ TaskReject(t)
                        \/ TaskResume(t)

\* The event loop keeps running.
Fairness == WF_vars(Sched)

SpecLive == Spec /\ Fairness

----------------------------------------------------------------------------
(* SpecHist: saveToHistory called again and again, from a history that     *)
(* earlier runs of the script have left behind.                            *)

MaxSaves == 4

\* The entries earlier runs saved: n of them, newest first, at the times
\* -1, -2, ..., -n before this run.
Earlier(n) == [k \in 1..n |-> [title |-> <<"a">>, sku |-> <<"Z">>, timestamp |-> 0 - k]]

InitHist ==
    /\ inv = [c \in Invs |-> NoCall]
    /\ sha = {}
    /\ QuietPage
    /\ now = 0
    /\ used = 0
    /\ \E n \in {0, HistoryCap - 2, HistoryCap - 1, HistoryCap, HistoryCap + 3} :
          /\ log = Earlier(n)
          /\ history = Slice(Earlier(n), HistoryCap)

\* generateAndSetSKU calls saveToHistory(productTitle, newSKU) (line 397).
SaveCall ==
    /\ used < MaxSaves
    /\ used' = used + 1
    /\ \E title \in {<<"a">>, <<"A">>}, h \in SmallDigests :
          LET sku == formatSKU(ReplaceO(MapDigest(h).result))
          IN /\ history' = saveToHistory(title, sku)
             /\ log' = <<Entry(title, sku)>> \o log
    /\ UNCHANGED <<genVars, pageVars, now>>

\* The clock new Date() reads moves on.
ClockTick ==
    /\ now < MaxNow
    /\ now' = now + 1
    /\ UNCHANGED <<genVars, pageVars, history, used, log>>

NextHist == SaveCall \/ ClockTick

SpecHist == InitHist /\ [][NextHist]_vars

----------------------------------------------------------------------------
(* Claims about the mapping of digest bytes, checked under SpecMap         *)

\* An invocation that got past the input checks and has returned.
Mapped(c) == inv[c].pc = "done" /\ ~Rejected(inv[c].arg)

Letters == << "A","B","C","D","E","F","G","H","I","J","K","L","M",
              "N","O","P","Q","R","S","T","U","V","W","X","Y","Z" >>
Digits == << "0","1","2","3","4","5","6","7","8","9" >>
\* A-N, P-Z and 0-9.
SKUAlphabet == ({Letters[k] : k \in 1..26} \ {"O"}) \cup {Digits[k] : k \in 1..10}

\* C1: every SKU returned for a digest is 14 characters long, has a dash at
\* positions 5 and 10 and only characters of A-N, P-Z, 0-9 elsewhere.
C1_Pattern ==
    \A c \in Callers :
       Mapped(c) =>
          LET s == inv[c].ret.v
          IN /\ inv[c].ret.t = "string"
             /\ Len(s) = 14
             /\ s[5] = "-" /\ s[10] = "-"
             /\ \A k \in (1..14) \ {5, 10} : s[k] \in SKUAlphabet

\* A returned SKU whose code held two letters O before the substitution.
C1_Witness ==
    \E c \in Callers :
       /\ Mapped(c)
       /\ Cardinality({k \in 1..Len(inv[c].result) : inv[c].result[k] = "O"}) = 2
       /\ Len(inv[c].ret.v) = 14

\* The symbol of index n in the alphabet A-Z followed by 0-9.
RefChar(n) == IF n < 26 THEN Letters[n + 1] ELSE Digits[n - 25]

\* C3: the 12 characters before the substitution of O are, for k = 0..5,
\* the symbol of index floor(byte_k / 36) mod 36 at 2k and the symbol of index
\* byte_k mod 36 at 2k+1.
C3_Mapping ==
    \A c \in Callers :
       Mapped(c) =>
          /\ Len(inv[c].result) = 12
          /\ \A k \in 0..5 :
                LET byte == inv[c].hashArray[k + 1]
                IN /\ inv[c].result[2 * k + 1] = RefChar((byte \div 36) % 36)
                   /\ inv[c].result[2 * k + 2] = RefChar(byte % 36)

\* A mapped digest whose last byte read is 255: "H" then "D".
C3_Witness ==
    \E c \in Callers :
       /\ Mapped(c)
       /\ inv[c].hashArray[6] = 255
       /\ inv[c].result[11] = "H" /\ inv[c].result[12] = "D"

SameHead(c, d) == SubSeq(inv[c].hashArray, 1, 6) = SubSeq(inv[d].hashArray, 1, 6)

\* C4: the loop ends after 12 characters having read 6 bytes, fewer than the
\* digest has, and two digests with the same first 6 bytes give the same SKU.
C4_SixBytes ==
    /\ \A c \in Callers :
          Mapped(c) => /\ Len(inv[c].result) = 12
                       /\ inv[c].i = 6
                       /\ inv[c].i < Len(inv[c].hashArray)
    /\ \A c, d \in Callers :
          Mapped(c) /\ Mapped(d) /\ SameHead(c, d) => inv[c].ret = inv[d].ret

\* Two mapped digests with the same first 6 bytes and different later bytes.
C4_Witness ==
    \E c, d \in Callers :
       /\ Mapped(c) /\ Mapped(d) /\ SameHead(c, d)
       /\ inv[c].hashArray # inv[d].hashArray
       /\ inv[c].hashArray[DigestLen] = 255

\* Bytes b and c collide: same quotient, remainders 14 (O) and 26 (0).
OZeroPair(b, c) ==
    /\ b \div 36 = c \div 36
    /\ {b % 36, c % 36} = {14, 26}

\* C7: two digests whose first 6 bytes differ give the same SKU exactly when
\* every byte in which they differ is an O/0 pair with the same quotient.
C7_Collisions ==
    \A c, d \in Callers :
       Mapped(c) /\ Mapped(d) /\ ~SameHead(c, d) =>
          ( inv[c].ret = inv[d].ret
            <=> \A k \in 1..6 :
                   inv[c].hashArray[k] # inv[d].hashArray[k]
                      => OZeroPair(inv[c].hashArray[k], inv[d].hashArray[k]) )

\* Two digests that differ in two bytes and give the same SKU.
C7_Witness ==
    \E c, d \in Callers :
       /\ Mapped(c) /\ Mapped(d)
       /\ Cardinality({k \in 1..6 : inv[c].hashArray[k] # inv[d].hashArray[k]}) = 2
       /\ inv[c].ret = inv[d].ret
       /\ inv[c].result # inv[d].result

----------------------------------------------------------------------------
(* Claims about the input handling of generateSKU, checked under SpecGen   *)

AllWhiteSpace(s) == \A k \in 1..Len(s) : s[k] \in WhiteSpace

\* The argument is no string, the empty string or white space only.
BadInput(x) == x.t # "string" \/ AllWhiteSpace(x.v)

\* C2 (result): a returned invocation returned null exactly when its argument
\* was no string, empty or white space only, and then no digest input was
\* encoded and no digest received; otherwise it returned a string.
C2_ResultOK ==
    \A c \in Callers :
       inv[c].pc = "done" =>
          IF BadInput(inv[c].arg)
          THEN inv[c].ret = JSNull /\ inv[c].data = << >> /\ inv[c].hashArray = << >>
          ELSE inv[c].ret.t = "string" /\ Len(inv[c].ret.v) > 0
                  /\ Len(inv[c].hashArray) = DigestLen

\* C2 (effect): a call with such an argument returns in the step of the call,
\* leaving the oracle and every other invocation as they were, and a call
\* with any other argument suspends at the digest.
C2_CallStep ==
    \A c \in Callers :
       inv[c].pc = "idle" /\ inv'[c].pc # "idle" =>
          IF BadInput(inv'[c].arg)
          THEN /\ inv'[c].pc = "done"
               /\ sha' = sha
               /\ \A d \in Invs \ {c} : inv'[d] = inv[d]
               /\ UNCHANGED <<pageVars, histVars>>
          ELSE inv'[c].pc = "await"

\* C2: generateSKU returns null, computing no digest and changing no state,
\* for an argument that is no string, empty or white space only, and a SKU
\* for every other argument.
C2_NullOnBadInput == [](C2_ResultOK) /\ [][C2_CallStep]_vars

\* A call with a white-space-only string has returned null while the other
\* caller is suspended at the digest.
C2_Witness ==
    \E c, d \in Callers :
       /\ inv[c].pc = "done" /\ inv[c].arg.t = "string"
       /\ Len(inv[c].arg.v) = 2 * MaxPad /\ AllWhiteSpace(inv[c].arg.v)
       /\ inv[c].ret = JSNull
       /\ inv[d].pc = "await"

WhiteSeqs == SeqsUpTo(WhiteSpace, 2 * MaxPad)
\* s is t with white space added in front and behind.
IsPaddingOf(s, t) == \E l \in WhiteSeqs, r \in WhiteSeqs : s = l \o t \o r
Unpadded(t) == Len(t) > 0 /\ t[1] \notin WhiteSpace /\ t[Len(t)] \notin WhiteSpace

\* C5: a title with white space added around it has the digest input and the
\* SKU of the title itself, and the digest input of a title without
\* surrounding white space is its UTF-8 encoding, letter case kept.
C5_TrimOnly ==
    /\ \A c, d \in Callers :
          /\ inv[c].pc # "idle" /\ inv[d].pc # "idle"
          /\ inv[c].arg.t = "string" /\ inv[d].arg.t = "string"
          /\ Unpadded(inv[c].arg.v)
          /\ IsPaddingOf(inv[d].arg.v, inv[c].arg.v)
          => /\ inv[d].data = inv[c].data
             /\ (inv[c].pc = "done" /\ inv[d].pc = "done" => inv[d].ret = inv[c].ret)
    /\ \A c \in Callers :
          inv[c].pc # "idle" /\ inv[c].arg.t = "string" /\ Unpadded(inv[c].arg.v)
          => inv[c].data = [k \in 1..Len(inv[c].arg.v) |->
                               IF inv[c].arg.v[k] = "a" THEN 97 ELSE 65]

\* Both callers have returned, one for "A" and one for "A" with MaxPad white
\* space characters on each side.
C5_Witness ==
    \E c, d \in Callers :
       /\ inv[c].pc = "done" /\ inv[d].pc = "done"
       /\ inv[c].arg = JSString(<<"A">>)
       /\ Len(inv[d].arg.v) = 2 * MaxPad + 1
       /\ IsPaddingOf(inv[d].arg.v, <<"A">>)
       /\ inv[d].ret = inv[c].ret /\ inv[d].ret.t = "string"

----------------------------------------------------------------------------
(* Claims about the history, checked under SpecHist                        *)

\* C10: the stored history has at most 100 entries and is the most recent
\* min(n, 100) of the n entries saved so far, newest first and as saved.
C10_HistoryCap ==
    /\ Len(history) <= 100
    /\ Len(history) = (IF Len(log) < 100 THEN Len(log) ELSE 100)
    /\ \A k \in 1..Len(history) : history[k] = log[k]

\* More than 100 entries were saved, the last MaxSaves of them in this run,
\* and the oldest entries are gone.
C10_Witness ==
    /\ used = MaxSaves
    /\ Len(log) = HistoryCap + MaxSaves - 1
    /\ Len(history) = HistoryCap
    /\ history[1].timestamp = now /\ now > 0
    /\ history[HistoryCap].timestamp = 0 - (HistoryCap - MaxSaves)

----------------------------------------------------------------------------
(* Claims about concurrent invocations, checked under SpecGen              *)

\* The SKU generateSKU returns for a title whose digest is h.
AloneSKU(h) == JSString(formatSKU(ReplaceO(MapDigest(h).result)))

\* C6: whatever the interleaving of the callers and whatever the flags and
\* the stored history are, an invocation returns the SKU of the digest of its
\* own trimmed title, the digest of a byte string is one value, and equal
\* arguments get equal results.
C6_Stateless ==
    /\ \A e, f \in sha : e[1] = f[1] => e[2] = f[2]
    /\ \A c \in Callers :
          Mapped(c) =>
             \E e \in sha : /\ e[1] = Encode(Trim(inv[c].arg.v))
                            /\ inv[c].ret = AloneSKU(e[2])
    /\ \A c, d \in Callers :
          inv[c].pc = "done" /\ inv[d].pc = "done" /\ inv[c].arg = inv[d].arg
             => inv[c].ret = inv[d].ret

\* Two invocations for different titles have returned different SKUs while
\* both flags are set and the history is not empty.
C6_Witness ==
    \E c, d \in Callers :
       /\ Mapped(c) /\ Mapped(d)
       /\ Trim(inv[c].arg.v) # Trim(inv[d].arg.v)
       /\ inv[c].ret # inv[d].ret
       /\ isProcessingSave /\ hasShownInitialPrompt /\ Len(history) > 0

----------------------------------------------------------------------------
(* Claims about the reachable codes, checked under SpecMap                 *)

FirstChars == {"A", "B", "C", "D", "E", "F", "G", "H"}

\* C17: the quotient of each byte read is at most 7, and the characters at
\* the odd positions of the 12-character code, which are the characters 1,
\* 3, 6, 8, 11 and 13 of the SKU, are among A..H.
C17_FirstOfPair ==
    \A c \in Callers :
       Mapped(c) =>
          /\ \A k \in 1..inv[c].i : inv[c].hashArray[k] \div 36 <= 7
          /\ Len(inv[c].sku) = SKU_LENGTH
          /\ \A k \in 1..SKU_LENGTH : k % 2 = 1 => inv[c].sku[k] \in FirstChars
          /\ \A k \in {1, 3, 6, 8, 11, 13} : inv[c].ret.v[k] \in FirstChars

\* One code starts with H, the last a first character can be; in another
\* the second character of a pair is 9, the last of the alphabet.
C17_Witness ==
    /\ Mapped(1) /\ Mapped(2)
    /\ inv[1].hashArray[1] = ByteMax /\ inv[1].sku[1] = "H"
    /\ inv[2].sku[1] = "A" /\ inv[2].sku[2] = "9"

----------------------------------------------------------------------------
(* Claims about formatSKU, checked under SpecFmt                           *)

\* The string s without its characters at the positions of skip.
Without(s, skip) ==
    LET keep(k) == Cardinality({j \in 1..k : j \notin skip})
        n == keep(Len(s))
    IN [m \in 1..n |-> s[CHOOSE k \in 1..Len(s) : k \notin skip /\ keep(k) = m]]

\* C18: formatSKU returns an argument whose length is not 12 unchanged; an
\* argument of length 12 it returns with a dash after the 4th and after the
\* 8th character, and the result without these two dashes is the argument.
C18_Format ==
    \A c \in Callers :
       inv[c].pc = "done" =>
          LET s == inv[c].sku
              r == inv[c].ret.v
          IN IF Len(s) # 12
             THEN r = s
             ELSE /\ Len(r) = 14
                  /\ r[5] = "-" /\ r[10] = "-"
                  /\ \A k \in 1..4 : r[k] = s[k]
                  /\ \A k \in 5..8 : r[k + 1] = s[k]
                  /\ \A k \in 9..12 : r[k + 2] = s[k]
                  /\ Without(r, {5, 10}) = s

\* An argument of 12 characters with a dash of its own was formatted, and
\* one of 13 characters was returned as it is.
C18_Witness ==
    /\ inv[1].pc = "done" /\ inv[2].pc = "done"
    /\ Len(inv[1].sku) = 12 /\ inv[1].sku[5] = "-" /\ inv[1].sku[6] = "A"
    /\ Len(inv[1].ret.v) = 14
    /\ Len(inv[2].sku) = 13 /\ inv[2].ret.v = inv[2].sku

----------------------------------------------------------------------------
(* Claims about the interception of saves, checked under Spec              *)

\* C8: a save intent that arrives on a product page with a non-empty title
\* and a missing SKU, the listeners being added and submit wrapped, is
\* blocked: the event is prevented, the original submit is not called.
C8_SaveBlocked ==
    last.kind # "none" /\ last.hooked /\ last.titleOK /\ last.missing
       => last.blocked

\* C9: a step in which the user declines a confirmation leaves the SKU
\* field, the check box and the history as they are, and every step of the
\* script that changes one of them is the step of an accepted confirmation
\* or a later step of the function whose confirmation was accepted.
C9_DeclineStep ==
    dialog' # dialog /\ ~dialog'.answer
       => dom'.sku = dom.sku /\ dom'.cb = dom.cb /\ history' = history
C9_WriteStep ==
    \/ history' # history
    \/ dom'.gen = dom.gen /\ (dom'.sku # dom.sku \/ dom'.cb # dom.cb)
C9_AcceptedStep ==
    \/ dialog' # dialog /\ dialog'.answer
    \/ \E t \in Tasks : /\ tasks[t].st \in {"saveDigest", "promptDigest"}
                        /\ tasks[t].answer
                        /\ tasks'[t] # tasks[t]
C9_Gated == [][C9_DeclineStep /\ (C9_WriteStep => C9_AcceptedStep)]_vars

\* After an accepted confirmation has put a SKU into the history, the user
\* has declined the confirmation of a save on a page whose SKU is empty.
C9_Witness ==
    /\ Len(history) = 1
    /\ dialog.src = "save" /\ ~dialog.answer
    /\ dom.hasSku /\ EmptyValue(dom.sku)
    /\ isProcessingSave

\* The page has a SKU: an existing product with a non-empty SKU field, or a
\* new product with the check box checked and a non-empty SKU field.
SKUPresent ==
    /\ dom.hasSku /\ ~EmptyValue(dom.sku)
    /\ \/ dom.kind = "existing"
       \/ dom.kind = "new" /\ dom.cb = "checked"

\* A save intent arrives in this step: a user action on the same page.
IntentStep == used' = used + 1 /\ dom'.gen = dom.gen

\* C11: a save intent that arrives while the page has a SKU is not
\* prevented, hands a form.submit() to the original submit, shows no
\* confirmation and starts no processing, whatever isProcessingSave is.
C11_SaveProceeds ==
    [][IntentStep /\ SKUPresent
          => /\ last'.kind # "none" /\ ~last'.blocked /\ ~last'.prompted
             /\ dialog' = dialog
             /\ dom' = dom /\ tasks' = tasks
             /\ isProcessingSave' = isProcessingSave]_vars

\* A wrapped form.submit() reached the original submit while a SKU written
\* by the script was on the page and isProcessingSave was still true.
C11_Witness ==
    /\ last.kind = "formsubmit" /\ last.hooked /\ last.processing
    /\ ~last.missing /\ ~last.blocked
    /\ SKUPresent /\ isProcessingSave
    /\ Len(history) = 1

\* The runs of handleSaveClick that are in their processing section: past
\* line 329 and before the reset timer of line 376 has fired.
InProcessing == {t \in Tasks : tasks[t].st \in {"cbWait", "saveDigest", "reset"}}

\* C12: at most one run of handleSaveClick is in its processing section, the
\* flag is true exactly while there is one, and a save intent that arrives
\* while there is one shows no confirmation and starts no second run.
C12_OneRun ==
    /\ [](/\ Cardinality(InProcessing) <= 1
          /\ isProcessingSave <=> InProcessing # {})
    /\ [][IntentStep /\ InProcessing # {}
             => dialog' = dialog /\ tasks' = tasks]_vars

\* A second save intent has arrived on a page without SKU while the run the
\* first one started, its confirmation answered, was in its processing section.
C12_Witness ==
    /\ used = 2
    /\ last.kind # "none" /\ last.hooked /\ last.missing /\ last.titleOK
    /\ last.processing
    /\ dialog.src = "save"
    /\ Cardinality(InProcessing) = 1

----------------------------------------------------------------------------
(* Claims about the initial prompt and the timers, checked under Spec      *)

\* C13: within one page visit the confirmation of showInitialPromptIfNeeded
\* is shown at most once.
C13_PromptOnce == shown <= 1

\* C14: whenever isProcessingSave is true it is false again later, timers
\* firing and digests settling.
C14_FlagReset == isProcessingSave ~> ~isProcessingSave

\* The flag is false again after a save intent whose confirmation the user
\* accepted and whose generation threw: the SKU field is there and empty,
\* nothing was saved to the history.
C14_Witness ==
    /\ ~isProcessingSave /\ InProcessing = {}
    /\ used = 1 /\ dialog.src = "save" /\ dialog.answer
    /\ dom.kind = "existing" /\ dom.hasSku /\ EmptyValue(dom.sku)
    /\ history = << >>

\* C15: the submit of the page's form is wrapped at most once, in exactly one
\* layer when the form is marked _blenkoIntercepted, and the listeners of the
\* document are added at most once, when the document is marked
\* _blenkoListenersSetup.
C15_WrappedOnce ==
    /\ hooks.submitLayers <= 1
    /\ hooks.formIntercepted <=> hooks.submitLayers = 1
    /\ hooks.listenerSets <= 1
    /\ hooks.listenersSetup <=> hooks.listenerSets = 1

\* On a product page the three initialize calls of lines 581-583 and the
\* interval scans before them have run: one layer, one set of listeners.
C15_Witness ==
    /\ used = 0 /\ isProductPage
    /\ \A t \in Tasks : tasks[t].st # "init"
    /\ hooks.submitLayers = 1 /\ hooks.listenerSets = 1

\* C16: a call of a wrapped form.submit() reaches the original submit or a
\* confirmation is shown.
C16_NotDropped ==
    last.kind = "formsubmit" /\ last.hooked => ~last.blocked \/ last.prompted

====
